---- MODULE Spec2Model ----
(***************************************************************************)
(* Model of the trip-time estimation engine of NYCPublicTransportProject:  *)
(* src/src/station_utilities.py (StationFinder) and src/src/simulations.py *)
(* (Simulator).                                                            *)
(*                                                                         *)
(* Coordinates are pairs <<latitude, longitude>> on an integer grid whose  *)
(* unit is one kilometre; the great-circle distance of the haversine       *)
(* package is modelled by the grid (Manhattan) distance, a metric with     *)
(* integer values, so that "nearest", "within radius" and "distance /      *)
(* speed" keep their meaning.  The external routing service (googlemaps)   *)
(* is the environment: each request is answered nondeterministically, and  *)
(* the duration of a found route is a fixed function of its end points.    *)
(***************************************************************************)
EXTENDS Integers, Sequences, FiniteSets, TLC

----------------------------------------------------------------------------
(* Bounds of the model *)

MaxOrigins == 3
MaxDests == 3
MaxFaults == 2

(* Program constants *)

QuotaOrigins == 25
QuotaDests == 25
DefaultMaxElements == 100
METRO_SPEED == 28
WALK_SPEED == 5
BIKE_SPEED == 18

(* np.nan: durations are never negative, so -1 stands for "not a number" *)
NaN == -1

----------------------------------------------------------------------------
(* Geometry and the external service *)

Abs(x) == IF x < 0 THEN -x ELSE x

Haversine(p, q) == Abs(p[1] - q[1]) + Abs(p[2] - q[2])

Min(a, b) == IF a < b THEN a ELSE b

CeilDiv(a, b) == (a + b - 1) \div b

SpeedOf(travel_mode) ==
    CASE travel_mode = "walking" -> WALK_SPEED
      [] travel_mode = "bicycling" -> BIKE_SPEED
      [] OTHER -> METRO_SPEED

(* Seconds the service reports for a route it finds: deterministic in the   *)
(* end points and the travel mode, different for different distances.       *)
ServiceDuration(o, d, travel_mode) ==
    (Haversine(o, d) * 3600) \div SpeedOf(travel_mode) + 60

----------------------------------------------------------------------------
(* batch_distance_matrix_call: pure parts *)

(* int(np.sqrt(n)): the largest k with k * k <= n *)
RECURSIVE SqrtFrom(_, _)
SqrtFrom(n, k) == IF (k + 1) * (k + 1) > n THEN k ELSE SqrtFrom(n, k + 1)

ISqrt(n) == SqrtFrom(n, 0)

MaxOriginsPerBatch(me) == Min(QuotaOrigins, ISqrt(me))

(* Mutant: the destination batch size forgets to divide by the origin size *)
MaxDestsPerBatchNoDiv(me) == Min(QuotaDests, me)

MaxDestsPerBatch(me) == Min(QuotaDests, me \div MaxOriginsPerBatch(me))

(* Python slice lst[from : from + count] of a list held as a sequence *)
Slice(lst, from, count) ==
    SubSeq(lst, from + 1, Min(Len(lst), from + count))

FullMatrix(n, m, v) == [c \in (0..(n - 1)) \X (0..(m - 1)) |-> v]

(* One element of a response row.  A well-formed element has a status and,  *)
(* when the status is OK, a duration; an element without the field the      *)
(* parser reads makes the read raise.                                       *)
OkElement(o, d, travel_mode) ==
    [status |-> "OK", duration |-> ServiceDuration(o, d, travel_mode)]

NoRouteElement == [status |-> "ZERO_RESULTS"]

MalformedElement == [status |-> "OK"]

ElementRaises(element) ==
    element.status = "OK" /\ "duration" \notin DOMAIN element

(* Mutant: the sub-batch offsets are dropped *)
CellOfNoOffset(i, j, oi, di) == <<oi, di>>

(* The cell a response element is written to *)
CellOf(i, j, oi, di) == <<i + oi, j + di>>

(* Mutant: an element without a route is written as a zero duration *)
RECURSIVE ParseFromZero(_, _, _, _, _, _, _)
ParseFromZero(tm, i, j, no, nd, rows, k) ==
    IF k >= no * nd THEN tm
    ELSE LET oi == k \div nd
             di == k % nd
             element == rows[<<oi, di>>]
         IN IF ElementRaises(element) THEN tm
            ELSE ParseFromZero([tm EXCEPT ![<<i + oi, j + di>>] =
                                   IF element.status = "OK" THEN element.duration ELSE 0],
                               i, j, no, nd, rows, k + 1)

(* Mutant: an element without a route takes the value of the first cell of  *)
(* the matrix                                                               *)
RECURSIVE ParseFromCopy(_, _, _, _, _, _, _)
ParseFromCopy(tm, i, j, no, nd, rows, k) ==
    IF k >= no * nd THEN tm
    ELSE LET oi == k \div nd
             di == k % nd
             element == rows[<<oi, di>>]
         IN IF ElementRaises(element) THEN tm
            ELSE ParseFromCopy([tm EXCEPT ![CellOf(i, j, oi, di)] =
                                   IF element.status = "OK" THEN element.duration
                                   ELSE tm[<<0, 0>>]],
                               i, j, no, nd, rows, k + 1)

(* The parse loop of one response, from element k (row-major) on; an        *)
(* element whose read raises ends the loop with the cells written so far.   *)
RECURSIVE ParseFrom(_, _, _, _, _, _, _)
ParseFrom(tm, i, j, no, nd, rows, k) ==
    IF k >= no * nd THEN tm
    ELSE LET oi == k \div nd
             di == k % nd
             element == rows[<<oi, di>>]
         IN IF ElementRaises(element) THEN tm
            ELSE IF element.status = "OK"
                 THEN ParseFrom([tm EXCEPT ![CellOf(i, j, oi, di)] = element.duration],
                                i, j, no, nd, rows, k + 1)
                 ELSE ParseFrom(tm, i, j, no, nd, rows, k + 1)

(* Mutant: the except branch resets the whole matrix *)
HandleSubBatchWipe(tm, i, j, no, nd, response) ==
    IF response.raised THEN [c \in DOMAIN tm |-> NaN]
    ELSE ParseFrom(tm, i, j, no, nd, response.rows, 0)

(* The body of the try block for one sub-batch, given the service's answer  *)
HandleSubBatch(tm, i, j, no, nd, response) ==
    IF response.raised THEN tm
    ELSE ParseFrom(tm, i, j, no, nd, response.rows, 0)

----------------------------------------------------------------------------
(* StationFinder: loading the station tables *)

(* A table is a DataFrame: a sequence of rows, each with its index label *)
Row(label, name, lat, lon) ==
    [label |-> label, station_name |-> name, latitude |-> lat, longitude |-> lon]

(* The rows of seq at the positions in keep, from position k on, in order *)
RECURSIVE RowsAt(_, _, _)
RowsAt(seq, keep, k) ==
    IF k > Len(seq) THEN <<>>
    ELSE (IF k \in keep THEN <<seq[k]>> ELSE <<>>) \o RowsAt(seq, keep, k + 1)

(* _extract_citibike_coords: one row per graph node, rows with a missing    *)
(* coordinate dropped; the surviving rows keep their labels.                *)
ExtractCitibikeCoords(nodes) ==
    LET df == [k \in 1..Len(nodes) |->
                  Row(k - 1, nodes[k].station_name, nodes[k].latitude, nodes[k].longitude)]
        has_coords == {k \in 1..Len(df) : df[k].latitude # NaN /\ df[k].longitude # NaN}
    IN RowsAt(df, has_coords, 1)

(* _extract_subway_coords, CSV branch: drop_duplicates() over the three     *)
(* columns keeps the first of the rows equal in name and coordinates.       *)
ExtractSubwayCoordsCsv(feed) ==
    LET df == [k \in 1..Len(feed) |->
                  Row(k - 1, feed[k].station_name, feed[k].latitude, feed[k].longitude)]
        first == {k \in 1..Len(df) :
                    \A l \in 1..(k - 1) :
                        ~(/\ df[l].station_name = df[k].station_name
                          /\ df[l].latitude = df[k].latitude
                          /\ df[l].longitude = df[k].longitude)}
    IN RowsAt(df, first, 1)

(* _download_subway_coords: platforms (stop ids ending in N or S) are       *)
(* filtered out, then drop_duplicates(subset=['station_name']).             *)
DownloadSubwayCoords(feed) ==
    LET df == [k \in 1..Len(feed) |->
                  Row(k - 1, feed[k].station_name, feed[k].latitude, feed[k].longitude)]
        stops == RowsAt(df, {k \in 1..Len(df) : feed[k].suffix \notin {"N", "S"}}, 1)
        first == {k \in 1..Len(stops) :
                    \A l \in 1..(k - 1) : stops[l].station_name # stops[k].station_name}
    IN RowsAt(stops, first, 1)

Names(table) == {table[k].station_name : k \in 1..Len(table)}

(* Column labels of the subway DataFrame *)
Columns == {"station_name", "latitude", "longitude"}

(* df.loc[label] = values: the row with that label is overwritten, or a     *)
(* new row is appended when no row has it.                                  *)
LocSet(table, label, name, lat, lon) ==
    IF \E k \in 1..Len(table) : table[k].label = label
    THEN [k \in 1..Len(table) |->
            IF table[k].label = label THEN Row(label, name, lat, lon) ELSE table[k]]
    ELSE Append(table, Row(label, name, lat, lon))

(* insert_station: "station_name not in self.subway_stations" tests the     *)
(* column labels of the DataFrame.                                          *)
InsertedTable(table, name, coords) ==
    IF name \notin Columns
    THEN LocSet(table, Len(table), name, coords[1], coords[2])
    ELSE table

----------------------------------------------------------------------------
(* GeoSearch: find_stations_within_radius and pre_calculate_nearest_stations *)

Found(row, center) ==
    [station_name |-> row.station_name, latitude |-> row.latitude,
     longitude |-> row.longitude,
     distance_km |-> Haversine(center, <<row.latitude, row.longitude>>)]

(* sort_values('distance_km'): ascending, rows of equal distance in table   *)
(* order.                                                                   *)
RECURSIVE InsertSorted(_, _)
InsertSorted(sorted, x) ==
    IF sorted = <<>> THEN <<x>>
    ELSE IF Head(sorted).distance_km <= x.distance_km
         THEN <<Head(sorted)>> \o InsertSorted(Tail(sorted), x)
         ELSE <<x>> \o sorted

(* Mutant: the found rows stay in table order *)
SortValuesTableOrder(seq, k) == seq

RECURSIVE SortValues(_, _)
SortValues(seq, k) ==
    IF k = 0 THEN <<>> ELSE InsertSorted(SortValues(seq, k - 1), seq[k])

(* Mutant: a station at the radius is left out *)
WithinRadiusInside(table, center, radius_km) ==
    LET found == [k \in 1..Len(table) |-> Found(table[k], center)]
        within == RowsAt(found, {k \in 1..Len(found) : found[k].distance_km < radius_km}, 1)
    IN SortValues(within, Len(within))

WithinRadius(table, center, radius_km) ==
    LET found == [k \in 1..Len(table) |-> Found(table[k], center)]
        within == RowsAt(found, {k \in 1..Len(found) : found[k].distance_km <= radius_km}, 1)
    IN SortValues(within, Len(within))

(* find_stations_within_radius: a dictionary with the two networks *)
FindStationsWithinRadius(citibike, subway, center, radius_km) ==
    [citibike |-> WithinRadius(citibike, center, radius_km),
     subway |-> WithinRadius(subway, center, radius_km)]

ValidModes == {"citibike", "subway"}

(* Optional[pd.Series]: <<>> is None, <<s>> is the station s *)
NoStation == <<>>

(* idxmin over the distances to all stations: the first row of minimum      *)
(* distance; raises on an empty table.                                      *)
NearestOverall(table, location) ==
    LET d(k) == Haversine(location, <<table[k].latitude, table[k].longitude>>)
        best == CHOOSE k \in 1..Len(table) :
                   /\ \A l \in 1..Len(table) : d(k) <= d(l)
                   /\ \A l \in 1..(k - 1) : d(l) > d(k)
    IN Found(table[best], location)

(* Mutant: no fallback to the nearest station overall *)
NearestStationNoFallback(citibike, subway, location, mode, radius_km) ==
    LET nearby == FindStationsWithinRadius(citibike, subway, location, radius_km)
    IN IF mode \in DOMAIN nearby /\ nearby[mode] # <<>>
       THEN <<nearby[mode][1]>>
       ELSE NoStation

(* One iteration of the loop of pre_calculate_nearest_stations *)
NearestStation(citibike, subway, location, mode, radius_km) ==
    LET nearby == FindStationsWithinRadius(citibike, subway, location, radius_km)
        stations_df == IF mode = "citibike" THEN citibike ELSE subway
    IN IF mode \in DOMAIN nearby /\ nearby[mode] # <<>>
       THEN <<nearby[mode][1]>>
       ELSE IF stations_df = <<>> THEN NoStation
            ELSE <<NearestOverall(stations_df, location)>>

PreCalculateNearestStations(citibike, subway, points, mode, radius_km) ==
    [k \in 1..Len(points) |->
        NearestStation(citibike, subway, points[k], mode, radius_km)]

----------------------------------------------------------------------------
(* set_departure_time *)

(* A datetime: the ordinal of its date, day 0 being a Monday, and its time *)
DateTime(day, hour, minute, second) ==
    [day |-> day, hour |-> hour, minute |-> minute, second |-> second]

(* date.weekday(): Monday is 0 *)
Weekday(dt) == dt.day % 7

(* The order of datetime.time values, in seconds since midnight *)
TimeOfDay(hour, minute, second) == (hour * 60 + minute) * 60 + second

(* Mutant: a Monday whose departure time has passed stays today *)
DaysUntilMondayToday(now, hour, minute) == (0 - Weekday(now) + 7) % 7

(* Lines 214-218 *)
DaysUntilMonday(now, hour, minute) ==
    LET days_until_monday == (0 - Weekday(now) + 7) % 7
    IN IF /\ days_until_monday = 0
          /\ TimeOfDay(now.hour, now.minute, now.second) > TimeOfDay(hour, minute, 0)
       THEN 7
       ELSE days_until_monday

(* datetime.combine(now.date() + timedelta(days=...), time(hour, minute)) *)
SetDepartureTimeAt(now, hour, minute) ==
    DateTime(now.day + DaysUntilMonday(now, hour, minute), hour, minute, 0)

----------------------------------------------------------------------------
(* State *)

VARIABLES
    citibike_stations,              \* StationFinder.citibike_stations
    subway_stations,                \* StationFinder.subway_stations, shared with the Simulator
    original_subway_station_names,  \* names of the subway table at load
    inserts,                        \* calls of insert_station so far
    nearest,                        \* last direct call of pre_calculate_nearest_stations
    single,                         \* last call of calculate_travel_time
    departure,                      \* last call of set_departure_time
    nearby_call,                    \* last call of get_nearby_stations
    matrix_pc,           \* position in calculate_travel_time_matrix
    mode,                \* its arguments
    start_points,
    end_points,
    src_stations_series, \* its locals
    dst_stations_series,
    travel_time_matrix,
    route_matrix,
    walk_to_src_matrix,
    bike_matrix,
    pair_k,              \* pairs of the subway loop done so far
    batch_pc,        \* position in batch_distance_matrix_call: idle, loop, returned
    origins,         \* its arguments
    destinations,
    travel_mode,
    max_elements,
    time_matrix,     \* its local result matrix
    batch_i,         \* offsets of the next sub-batch
    batch_j,
    batch_call,      \* number of this call of batch_distance_matrix_call
    requests,        \* every request sent to the routing service, in order
    faults           \* answers so far that were not a found route

batch_vars == <<batch_pc, origins, destinations, travel_mode, max_elements,
                time_matrix, batch_i, batch_j, batch_call>>

env_vars == <<requests, faults>>

registry_vars == <<citibike_stations, subway_stations, original_subway_station_names,
                   inserts>>

matrix_vars == <<matrix_pc, mode, start_points, end_points, src_stations_series,
                 dst_stations_series, travel_time_matrix, route_matrix,
                 walk_to_src_matrix, bike_matrix, pair_k>>

vars == <<registry_vars, nearest, single, departure, nearby_call, matrix_vars, batch_vars,
         env_vars>>

----------------------------------------------------------------------------
(* The routing service's answers to a distance-matrix request *)

Cells(no, nd) == (0..(no - 1)) \X (0..(nd - 1))

RECURSIVE SubsetsUpTo(_, _)
SubsetsUpTo(S, k) ==
    IF k <= 0 THEN {{}}
    ELSE LET prev == SubsetsUpTo(S, k - 1)
         IN prev \cup {b \cup {c} : b \in prev, c \in S}

Rows(os, ds, tm, kind) ==
    [c \in Cells(Len(os), Len(ds)) |->
        IF c \in DOMAIN kind
        THEN (IF kind[c] = "noroute" THEN NoRouteElement ELSE MalformedElement)
        ELSE OkElement(os[c[1] + 1], ds[c[2] + 1], tm)]

(* A request either raises (network, authentication) or is answered with a  *)
(* grid of the requested shape; at most budget answers are not a route.     *)
MatrixResponses(os, ds, tm, budget) ==
    (IF budget >= 1 THEN {[raised |-> TRUE]} ELSE {})
    \cup
    UNION { { [raised |-> FALSE, rows |-> Rows(os, ds, tm, kind)] :
                kind \in [bad -> {"noroute", "malformed"}] } :
            bad \in SubsetsUpTo(Cells(Len(os), Len(ds)), budget) }

FaultsOf(response) ==
    IF response.raised THEN 1
    ELSE Cardinality({c \in DOMAIN response.rows :
                        \/ response.rows[c].status # "OK"
                        \/ ElementRaises(response.rows[c])})

----------------------------------------------------------------------------
(* batch_distance_matrix_call: the loop *)

LargeMaxElements == 700
MaxElements == 6

MaxElementsChoices == (1..MaxElements) \cup {DefaultMaxElements, LargeMaxElements}

(* The calls explored: every list length with a few quotas, and every quota *)
(* up to LargeMaxElements with one column of destinations.                  *)
CallShapes ==
    ((0..MaxOrigins) \X (0..MaxDests) \X MaxElementsChoices
        \X {"walking", "bicycling"})
    \cup ({MaxOrigins} \X {1} \X (1..LargeMaxElements) \X {"walking"})

OriginAt(k) == <<k - 1, 0>>
DestAt(k) == <<10 * k, 0>>

(* Entry: the locals before the loops (lines 175-181) *)
BatchEnter(os, ds, tm, me) ==
    /\ batch_pc' = "loop"
    /\ origins' = os
    /\ destinations' = ds
    /\ travel_mode' = tm
    /\ max_elements' = me
    /\ time_matrix' = FullMatrix(Len(os), Len(ds), NaN)
    /\ batch_i' = 0
    /\ batch_j' = 0
    /\ batch_call' = batch_call + 1

(* Mutant: the inner loop steps by one destination, not by the batch size *)
NextOffsetsStepOne(i, j, m, bo, bd) ==
    IF j + 1 < m THEN <<i, j + 1>> ELSE <<i + bo, 0>>

(* The offsets of the sub-batch after (i, j) in the nested range loops *)
NextOffsets(i, j, m, bo, bd) ==
    IF j + bd < m THEN <<i, j + bd>> ELSE <<i + bo, 0>>

LoopRunning == batch_i < Len(origins) /\ batch_j < Len(destinations)

(* A direct call of batch_distance_matrix_call; it reads no station table,   *)
(* so it is explored on the registry as loaded.                             *)
BatchCall ==
    /\ batch_pc = "idle"
    /\ matrix_pc = "idle"
    /\ ~nearest.called
    /\ ~single.called
    /\ inserts = 0
    /\ \E shape \in CallShapes :
          BatchEnter([k \in 1..shape[1] |-> OriginAt(k)],
                     [k \in 1..shape[2] |-> DestAt(k)], shape[4], shape[3])
    /\ UNCHANGED <<registry_vars, nearest, single, departure, nearby_call, matrix_vars, env_vars>>

(* One iteration of the inner loop: slice, request, parse, except *)
BatchRequest ==
    /\ batch_pc = "loop"
    /\ LoopRunning
    /\ LET bo == MaxOriginsPerBatch(max_elements)
           bd == MaxDestsPerBatch(max_elements)
           batch_origins == Slice(origins, batch_i, bo)
           batch_dests == Slice(destinations, batch_j, bd)
           next == NextOffsets(batch_i, batch_j, Len(destinations), bo, bd)
       IN \E response \in MatrixResponses(batch_origins, batch_dests, travel_mode,
                                          MaxFaults - faults) :
            /\ time_matrix' = HandleSubBatch(time_matrix, batch_i, batch_j,
                                             Len(batch_origins), Len(batch_dests),
                                             response)
            /\ requests' = Append(requests,
                                  [api |-> "distance_matrix", call |-> batch_call,
                                   i |-> batch_i, j |-> batch_j,
                                   origins |-> batch_origins, destinations |-> batch_dests,
                                   mode |-> travel_mode, response |-> response])
            /\ faults' = faults + FaultsOf(response)
            /\ batch_i' = next[1]
            /\ batch_j' = next[2]
    /\ UNCHANGED <<batch_pc, origins, destinations, travel_mode, max_elements,
                   batch_call, registry_vars, nearest, single, departure, nearby_call, matrix_vars>>

(* Loop exit: return time_matrix *)
BatchReturn ==
    /\ batch_pc = "loop"
    /\ ~LoopRunning
    /\ batch_pc' = "returned"
    /\ UNCHANGED <<origins, destinations, travel_mode, max_elements, time_matrix,
                   batch_i, batch_j, batch_call, env_vars, registry_vars, nearest, single, departure, nearby_call,
                   matrix_vars>>

BatchInit ==
    /\ batch_pc = "idle"
    /\ origins = <<>>
    /\ destinations = <<>>
    /\ travel_mode = "walking"
    /\ max_elements = DefaultMaxElements
    /\ time_matrix = FullMatrix(0, 0, NaN)
    /\ batch_i = 0
    /\ batch_j = 0
    /\ batch_call = 0

EnvInit ==
    /\ requests = <<>>
    /\ faults = 0

----------------------------------------------------------------------------
(* StationFinder.__init__ and the station data explored *)

MaxInserts == 2
MaxPoints == 2

Node(name, lat, lon) == [station_name |-> name, latitude |-> lat, longitude |-> lon]

Stop(name, lat, lon, suffix) ==
    [station_name |-> name, latitude |-> lat, longitude |-> lon, suffix |-> suffix]

(* Citibike graphs: one node without coordinates; or no node with them *)
CitibikeGraph == <<Node("C1", 1, 1), Node("C2", NaN, NaN), Node("C3", 6, 0)>>
CitibikeGraphNoCoords == <<Node("C2", NaN, NaN)>>

(* Subway coordinate sources: clean; with a repeated row (a platform);      *)
(* with one name at two places; empty.                                      *)
FeedClean == <<Stop("A", 0, 0, ""), Stop("B", 4, 0, "")>>
FeedRepeated == <<Stop("A", 0, 0, ""), Stop("A", 0, 0, "N"), Stop("B", 4, 0, "")>>
FeedSameName == <<Stop("A", 0, 0, ""), Stop("A", 1, 0, ""), Stop("B", 4, 0, "")>>
FeedEmpty == <<>>

Loads ==
    [graph : {CitibikeGraph, CitibikeGraphNoCoords},
     feed : {FeedClean, FeedRepeated, FeedSameName, FeedEmpty},
     source : {"csv", "gtfs"}]

(* _extract_subway_coords: the CSV when a path is given, else the download *)
ExtractSubwayCoords(load) ==
    IF load.source = "csv" THEN ExtractSubwayCoordsCsv(load.feed)
    ELSE DownloadSubwayCoords(load.feed)

RegistryInit(loads) ==
    /\ \E load \in loads :
          /\ citibike_stations = ExtractCitibikeCoords(load.graph)
          /\ subway_stations = ExtractSubwayCoords(load)
          /\ original_subway_station_names = Names(ExtractSubwayCoords(load))
    /\ inserts = 0

NoCall == [called |-> FALSE, points |-> <<>>, mode |-> "citibike", radius_km |-> 1,
           nearest_stations |-> <<>>]

NoSingle == [called |-> FALSE, src |-> <<0, 0>>, dst |-> <<0, 0>>,
             mode |-> "citibike", radius_km |-> 1, result |-> <<>>]

NoDeparture == [called |-> FALSE, now |-> DateTime(0, 0, 0, 0), hour |-> 0, minute |-> 0,
                result |-> DateTime(0, 0, 0, 0)]

NoNearby == [called |-> FALSE, location |-> <<0, 0>>, radius_km |-> 1,
             stations |-> [citibike |-> <<>>, subway |-> <<>>]]

(* Stations inserted for out-of-network points *)
InsertChoices == {<<"V1", <<9, 0>>>>, <<"V2", <<10, 0>>>>}

PointCoords == {<<1, 0>>, <<9, 1>>, <<0, 0>>, <<2, 0>>}

RECURSIVE SeqsUpTo(_, _)
SeqsUpTo(S, n) ==
    IF n = 0 THEN {<<>>}
    ELSE LET shorter == SeqsUpTo(S, n - 1)
         IN shorter \cup {Append(sq, x) : sq \in {t \in shorter : Len(t) = n - 1}, x \in S}

Idle ==
    /\ batch_pc = "idle"
    /\ ~nearest.called
    /\ ~single.called
    /\ ~nearby_call.called
    /\ matrix_pc = "idle"

(* insert_station(station) *)
InsertStation ==
    /\ Idle
    /\ inserts < MaxInserts
    /\ \E station \in InsertChoices :
          subway_stations' = InsertedTable(subway_stations, station[1], station[2])
    /\ inserts' = inserts + 1
    /\ UNCHANGED <<citibike_stations, original_subway_station_names, nearest, single, departure, nearby_call,
                   matrix_vars, batch_vars, env_vars>>

(* A direct call of pre_calculate_nearest_stations(points, mode, radius_km) *)
PreCalculate ==
    /\ Idle
    /\ \E points \in SeqsUpTo(PointCoords, MaxPoints),
          md \in ValidModes \cup {"bus"}, radius_km \in {1, 5} :
          nearest' = [called |-> TRUE, points |-> points, mode |-> md,
                      radius_km |-> radius_km,
                      nearest_stations |->
                          PreCalculateNearestStations(citibike_stations, subway_stations,
                                                      points, md, radius_km)]
    /\ UNCHANGED <<registry_vars, single, departure, nearby_call, matrix_vars, batch_vars,
                   env_vars>>

(* Centers and radii of a direct search for nearby stations *)
NearbyCenters == PointCoords \cup {<<4, 1>>, <<20, 20>>}
NearbyRadii == {0, 1, 5}

(* get_nearby_stations(location, radius_km) *)
GetNearbyStations ==
    /\ Idle
    /\ \E location \in NearbyCenters, radius_km \in NearbyRadii :
          nearby_call' = [called |-> TRUE, location |-> location, radius_km |-> radius_km,
                          stations |->
                              FindStationsWithinRadius(citibike_stations, subway_stations,
                                                       location, radius_km)]
    /\ UNCHANGED <<registry_vars, nearest, single, departure, matrix_vars, batch_vars,
                   env_vars>>

(* The clock readings and the departure times explored *)
NowDays == 0..6
NowTimes == {<<0, 0, 0>>, <<7, 59, 59>>, <<8, 0, 0>>, <<8, 0, 1>>, <<8, 30, 0>>,
             <<23, 59, 59>>}
DepartureHours == {0, 8, 23}
DepartureMinutes == {0, 30, 59}

(* set_departure_time(hour, minute), datetime.now() being any of the clock  *)
(* readings                                                                 *)
SetDepartureTime ==
    /\ \E day \in NowDays, t \in NowTimes, hour \in DepartureHours,
          minute \in DepartureMinutes :
          LET now == DateTime(day, t[1], t[2], t[3])
          IN departure' = [called |-> TRUE, now |-> now, hour |-> hour, minute |-> minute,
                           result |-> SetDepartureTimeAt(now, hour, minute)]
    /\ UNCHANGED <<registry_vars, nearest, single, nearby_call, matrix_vars, batch_vars,
                   env_vars>>

MatrixInit ==
    /\ matrix_pc = "idle"
    /\ mode = "citibike"
    /\ start_points = <<>>
    /\ end_points = <<>>
    /\ src_stations_series = <<>>
    /\ dst_stations_series = <<>>
    /\ travel_time_matrix = FullMatrix(0, 0, NaN)
    /\ route_matrix = FullMatrix(0, 0, NaN)
    /\ walk_to_src_matrix = FullMatrix(0, 0, NaN)
    /\ bike_matrix = FullMatrix(0, 0, NaN)
    /\ pair_k = 0

InitStations ==
    /\ RegistryInit(Loads)
    /\ nearest = NoCall /\ single = NoSingle /\ departure = NoDeparture
    /\ nearby_call = NoNearby /\ MatrixInit /\ BatchInit /\ EnvInit

NextStations == InsertStation \/ PreCalculate \/ GetNearbyStations

SpecStations == InitStations /\ [][NextStations]_vars

(* The registry a direct call of batch_distance_matrix_call runs on *)
BatchLoads == {[graph |-> CitibikeGraph, feed |-> FeedClean, source |-> "csv"]}

InitBatch ==
    /\ RegistryInit(BatchLoads)
    /\ nearest = NoCall /\ single = NoSingle /\ departure = NoDeparture
    /\ nearby_call = NoNearby /\ MatrixInit /\ BatchInit /\ EnvInit

NextBatch == BatchCall \/ BatchRequest \/ BatchReturn

SpecBatch == InitBatch /\ [][NextBatch]_vars

(* The departure time of a simulation, computed before any other call *)
InitDeparture == InitBatch

NextDeparture == SetDepartureTime

SpecDeparture == InitDeparture /\ [][NextDeparture]_vars

----------------------------------------------------------------------------
(* calculate_travel_time_matrix *)

MaxStarts == 2
MaxEnds == 2

(* radius_km passed to pre_calculate_nearest_stations and to the search     *)
(* around a virtual station                                                 *)
SearchRadius == 5

StartCoords == {<<1, 0>>, <<9, 1>>}
EndCoords == {<<3, 1>>, <<0, 1>>}

(* A cell of np.empty(dtype=object) holds None until a list is assigned *)
RouteNone == [written |-> FALSE, points |-> <<>>]
RouteList(points) == [written |-> TRUE, points |-> points]

Coord(st) == <<st.latitude, st.longitude>>

(* [i for i, s in enumerate(series) if s is not None], indices from 0 *)
ValidIndices(series) ==
    RowsAt([k \in 1..Len(series) |-> k - 1],
           {k \in 1..Len(series) : series[k] # NoStation}, 1)

IndexSet(indices) == {indices[k] : k \in 1..Len(indices)}

(* Position (from 0) of index i in the list of valid indices *)
PositionOf(indices, i) == (CHOOSE k \in 1..Len(indices) : indices[k] = i) - 1

PointsAt(points, indices) == [k \in 1..Len(indices) |-> points[indices[k] + 1]]

StationCoordsAt(series, indices) ==
    [k \in 1..Len(indices) |-> Coord(series[indices[k] + 1][1])]

(* Mutant: the time matrix is pre-filled with zeros *)
EmptyTimeMatrixZeros(num_starts, num_ends) == FullMatrix(num_starts, num_ends, 0)

(* np.full((num_starts, num_ends), np.nan) *)
EmptyTimeMatrix(num_starts, num_ends) == FullMatrix(num_starts, num_ends, NaN)

(* np.empty((num_starts, num_ends), dtype=object) *)
EmptyRouteMatrix(num_starts, num_ends) == FullMatrix(num_starts, num_ends, RouteNone)

(* Mutant: the call returns early only when both lists are empty *)
NothingToRouteBoth(valid_src_indices, valid_dst_indices) ==
    valid_src_indices = <<>> /\ valid_dst_indices = <<>>

(* Line 366: not valid_src_indices or not valid_dst_indices *)
NothingToRoute(valid_src_indices, valid_dst_indices) ==
    valid_src_indices = <<>> \/ valid_dst_indices = <<>>

(* Lines 352-368 and the branch on the mode.  A citibike call reads only    *)
(* the citibike table, which insert_station leaves alone, so it is explored *)
(* on the registry as loaded.                                               *)
MatrixCall ==
    /\ Idle
    /\ \E md \in ValidModes \cup {"bus"},
          starts \in SeqsUpTo(StartCoords, MaxStarts),
          ends \in SeqsUpTo(EndCoords, MaxEnds) :
          LET src == PreCalculateNearestStations(citibike_stations, subway_stations,
                                                 starts, md, SearchRadius)
              dst == PreCalculateNearestStations(citibike_stations, subway_stations,
                                                 ends, md, SearchRadius)
              valid_src_indices == ValidIndices(src)
              valid_dst_indices == ValidIndices(dst)
          IN /\ md = "citibike" => inserts = 0
             /\ mode' = md
             /\ start_points' = starts
             /\ end_points' = ends
             /\ src_stations_series' = src
             /\ dst_stations_series' = dst
             /\ travel_time_matrix' = EmptyTimeMatrix(Len(starts), Len(ends))
             /\ route_matrix' = EmptyRouteMatrix(Len(starts), Len(ends))
             /\ IF NothingToRoute(valid_src_indices, valid_dst_indices)
                THEN matrix_pc' = "returned" /\ UNCHANGED batch_vars
                ELSE IF md = "citibike"
                     THEN /\ matrix_pc' = "leg1"
                          /\ BatchEnter(PointsAt(starts, valid_src_indices),
                                        StationCoordsAt(src, valid_src_indices),
                                        "walking", DefaultMaxElements)
                     ELSE matrix_pc' = "pairs" /\ UNCHANGED batch_vars
    /\ UNCHANGED <<walk_to_src_matrix, bike_matrix, pair_k, registry_vars, nearest, single, departure, nearby_call,
                   env_vars>>

(* Line 383 returned; line 387 called *)
MatrixLeg1Done ==
    /\ matrix_pc = "leg1"
    /\ batch_pc = "returned"
    /\ walk_to_src_matrix' = time_matrix
    /\ BatchEnter(StationCoordsAt(src_stations_series, ValidIndices(src_stations_series)),
                  StationCoordsAt(dst_stations_series, ValidIndices(dst_stations_series)),
                  "bicycling", DefaultMaxElements)
    /\ matrix_pc' = "leg2"
    /\ UNCHANGED <<mode, start_points, end_points, src_stations_series,
                   dst_stations_series, travel_time_matrix, route_matrix, bike_matrix,
                   pair_k, registry_vars, nearest, single, departure, nearby_call, env_vars>>

(* Line 387 returned; line 391 called *)
MatrixLeg2Done ==
    /\ matrix_pc = "leg2"
    /\ batch_pc = "returned"
    /\ bike_matrix' = time_matrix
    /\ BatchEnter(StationCoordsAt(dst_stations_series, ValidIndices(dst_stations_series)),
                  PointsAt(end_points, ValidIndices(dst_stations_series)),
                  "walking", DefaultMaxElements)
    /\ matrix_pc' = "leg3"
    /\ UNCHANGED <<mode, start_points, end_points, src_stations_series,
                   dst_stations_series, travel_time_matrix, route_matrix,
                   walk_to_src_matrix, pair_k, registry_vars, nearest, single, departure, nearby_call, env_vars>>

(* Mutant: the cell is combined when the two first legs are numbers *)
CitibikeCellNoEgressCheck(walk_to, bike_time, walk_from, old_time, route_points) ==
    IF walk_to # NaN /\ bike_time # NaN
    THEN [time |-> walk_to + bike_time + walk_from, route |-> RouteList(route_points)]
    ELSE [time |-> old_time, route |-> RouteList(<<>>)]

(* Mutant: the waypoints are stored whatever the legs are *)
CitibikeCellAlwaysRoute(walk_to, bike_time, walk_from, old_time, route_points) ==
    IF walk_to # NaN /\ bike_time # NaN /\ walk_from # NaN
    THEN [time |-> walk_to + bike_time + walk_from, route |-> RouteList(route_points)]
    ELSE [time |-> old_time, route |-> RouteList(route_points)]

(* Lines 401-410: one cell of the combination *)
CitibikeCell(walk_to, bike_time, walk_from, old_time, route_points) ==
    IF walk_to # NaN /\ bike_time # NaN /\ walk_from # NaN
    THEN [time |-> walk_to + bike_time + walk_from, route |-> RouteList(route_points)]
    ELSE [time |-> old_time, route |-> RouteList(<<>>)]

(* Mutant: the walk legs are read at (i_idx, j_idx), off the diagonal *)
CombinedCellOffDiagonal(c, walk_from_dst_matrix) ==
    LET valid_src_indices == ValidIndices(src_stations_series)
        valid_dst_indices == ValidIndices(dst_stations_series)
        i_idx == PositionOf(valid_src_indices, c[1])
        j_idx == PositionOf(valid_dst_indices, c[2])
        src == start_points[c[1] + 1]
        dst == end_points[c[2] + 1]
        src_station_coord ==
            StationCoordsAt(src_stations_series, valid_src_indices)[i_idx + 1]
        dst_station_coord ==
            StationCoordsAt(dst_stations_series, valid_dst_indices)[j_idx + 1]
    IN CitibikeCell(IF <<i_idx, j_idx>> \in DOMAIN walk_to_src_matrix
                    THEN walk_to_src_matrix[<<i_idx, j_idx>>] ELSE NaN,
                    bike_matrix[<<i_idx, j_idx>>],
                    IF <<i_idx, j_idx>> \in DOMAIN walk_from_dst_matrix
                    THEN walk_from_dst_matrix[<<i_idx, j_idx>>] ELSE NaN,
                    travel_time_matrix[c],
                    <<src, src_station_coord, dst_station_coord, dst>>)

(* Lines 395-410 for the pair of matrix indices c *)
CombinedCell(c, walk_from_dst_matrix) ==
    LET valid_src_indices == ValidIndices(src_stations_series)
        valid_dst_indices == ValidIndices(dst_stations_series)
        i_idx == PositionOf(valid_src_indices, c[1])
        j_idx == PositionOf(valid_dst_indices, c[2])
        src == start_points[c[1] + 1]
        dst == end_points[c[2] + 1]
        src_station_coord ==
            StationCoordsAt(src_stations_series, valid_src_indices)[i_idx + 1]
        dst_station_coord ==
            StationCoordsAt(dst_stations_series, valid_dst_indices)[j_idx + 1]
    IN CitibikeCell(walk_to_src_matrix[<<i_idx, i_idx>>],
                    bike_matrix[<<i_idx, j_idx>>],
                    walk_from_dst_matrix[<<j_idx, j_idx>>],
                    travel_time_matrix[c],
                    <<src, src_station_coord, dst_station_coord, dst>>)

InCombination(c) ==
    /\ c[1] \in IndexSet(ValidIndices(src_stations_series))
    /\ c[2] \in IndexSet(ValidIndices(dst_stations_series))

(* Line 391 returned; the legs are combined and the matrices returned *)
MatrixLeg3Done ==
    /\ matrix_pc = "leg3"
    /\ batch_pc = "returned"
    /\ travel_time_matrix' =
          [c \in DOMAIN travel_time_matrix |->
              IF InCombination(c) THEN CombinedCell(c, time_matrix).time
              ELSE travel_time_matrix[c]]
    /\ route_matrix' =
          [c \in DOMAIN route_matrix |->
              IF InCombination(c) THEN CombinedCell(c, time_matrix).route
              ELSE route_matrix[c]]
    /\ matrix_pc' = "returned"
    /\ UNCHANGED <<mode, start_points, end_points, src_stations_series,
                   dst_stations_series, walk_to_src_matrix, bike_matrix, pair_k,
                   registry_vars, nearest, single, departure, nearby_call, batch_vars, env_vars>>

(* The subway loop, lines 417-476 *)

(* self.gmaps.directions: a route, an empty list, or an exception *)
DirectionsAnswers(budget) ==
    {"route"} \cup (IF budget >= 1 THEN {"empty", "raise"} ELSE {})

DirectionsRequest(c, leg, o, d, tm, answer) ==
    [api |-> "directions", pair |-> c, leg |-> leg, origin |-> o, destination |-> d,
     mode |-> tm, response |-> answer]

(* math.ceil((distance_km / METRO_SPEED) * 3600) *)
MetroSeconds(distance_km) == CeilDiv(distance_km * 3600, METRO_SPEED)

(* Mutant: a station is genuine when the table holds its name *)
IsVirtualByTable(st) == st.station_name \notin Names(subway_stations)

(* Line 440: station_name not in self.finder.original_subway_station_names *)
IsVirtual(st) == st.station_name \notin original_subway_station_names

(* Mutant: the except branch leaves the waypoints in the cell *)
PairFailedKeepsRoute(reqs, nfaults, route_points) ==
    [time |-> NaN, route |-> RouteList(route_points), reqs |-> reqs, faults |-> nfaults]

(* Lines 474-476: the except branch *)
PairFailed(reqs, nfaults, route_points) ==
    [time |-> NaN, route |-> RouteList(<<>>), reqs |-> reqs, faults |-> nfaults]

PairDone(total_time, route_points, reqs, nfaults) ==
    [time |-> total_time, route |-> RouteList(route_points), reqs |-> reqs,
     faults |-> nfaults]

Fault(answer) == IF answer = "route" THEN 0 ELSE 1

(* Lines 465-472: Leg 3 and the two assignments *)
PairLeg3(c, total_time, route_points, reqs, nfaults, dst_station_coord, dst, budget) ==
    { LET r3 == DirectionsRequest(c, 3, dst_station_coord, dst, "walking", a3)
      IN IF a3 = "route"
         THEN PairDone(total_time + ServiceDuration(dst_station_coord, dst, "walking"),
                       route_points, Append(reqs, r3), nfaults)
         ELSE PairFailed(Append(reqs, r3), nfaults + 1, route_points)
      : a3 \in DirectionsAnswers(budget - nfaults) }

(* Lines 449-463: the transit request from a station and the fallback *)
PairTransit(c, total_time, route_points, reqs, from, dst_station_coord, dst, budget) ==
    UNION { LET r2 == DirectionsRequest(c, 2, from, dst_station_coord, "transit", a2)
            IN IF a2 = "raise"
               THEN {PairFailed(Append(reqs, r2), 1, route_points)}
               ELSE PairLeg3(c,
                             total_time
                               + (IF a2 = "route"
                                  THEN ServiceDuration(from, dst_station_coord, "transit")
                                  ELSE MetroSeconds(Haversine(from, dst_station_coord))),
                             route_points, Append(reqs, r2), Fault(a2),
                             dst_station_coord, dst, budget)
            : a2 \in DirectionsAnswers(budget) }

(* Mutant: with one station found around the virtual station, that station  *)
(* is taken                                                                 *)
PairLeg2FirstFound(c, total_time, reqs, src, src_station_series, dst_station_coord, dst, budget) ==
    LET src_station_coord == Coord(src_station_series)
        nearby == FindStationsWithinRadius(citibike_stations, subway_stations,
                                           src_station_coord, SearchRadius)
        route_points == <<src, src_station_coord, dst_station_coord, dst>>
    IN IF IsVirtual(src_station_series)
       THEN IF mode \notin DOMAIN nearby \/ Len(nearby[mode]) < 1
            THEN {PairFailed(reqs, 0, route_points)}
            ELSE LET nearest_real_station == nearby[mode][Min(2, Len(nearby[mode]))]
                     nearest_real_coords == Coord(nearest_real_station)
                 IN PairTransit(c,
                                total_time + MetroSeconds(nearest_real_station.distance_km),
                                <<src, src_station_coord, nearest_real_coords,
                                  dst_station_coord, dst>>,
                                reqs, nearest_real_coords, dst_station_coord, dst, budget)
       ELSE PairTransit(c, total_time, route_points, reqs, src_station_coord,
                        dst_station_coord, dst, budget)

(* Mutant: the waypoint list is not rewritten for a virtual station *)
PairLeg2FourPoints(c, total_time, reqs, src, src_station_series, dst_station_coord, dst, budget) ==
    LET src_station_coord == Coord(src_station_series)
        nearby == FindStationsWithinRadius(citibike_stations, subway_stations,
                                           src_station_coord, SearchRadius)
        route_points == <<src, src_station_coord, dst_station_coord, dst>>
    IN IF IsVirtual(src_station_series)
       THEN IF mode \notin DOMAIN nearby \/ Len(nearby[mode]) < 2
            THEN {PairFailed(reqs, 0, route_points)}
            ELSE LET nearest_real_station == nearby[mode][2]
                     nearest_real_coords == Coord(nearest_real_station)
                 IN PairTransit(c,
                                total_time + MetroSeconds(nearest_real_station.distance_km),
                                route_points,
                                reqs, nearest_real_coords, dst_station_coord, dst, budget)
       ELSE PairTransit(c, total_time, route_points, reqs, src_station_coord,
                        dst_station_coord, dst, budget)

(* Lines 440-463: Leg 2 *)
PairLeg2(c, total_time, reqs, src, src_station_series, dst_station_coord, dst, budget) ==
    LET src_station_coord == Coord(src_station_series)
        nearby == FindStationsWithinRadius(citibike_stations, subway_stations,
                                           src_station_coord, SearchRadius)
        route_points == <<src, src_station_coord, dst_station_coord, dst>>
    IN IF IsVirtual(src_station_series)
       THEN IF mode \notin DOMAIN nearby \/ Len(nearby[mode]) < 2
            THEN {PairFailed(reqs, 0, route_points)}
            ELSE LET nearest_real_station == nearby[mode][2]
                     nearest_real_coords == Coord(nearest_real_station)
                 IN PairTransit(c,
                                total_time + MetroSeconds(nearest_real_station.distance_km),
                                <<src, src_station_coord, nearest_real_coords,
                                  dst_station_coord, dst>>,
                                reqs, nearest_real_coords, dst_station_coord, dst, budget)
       ELSE PairTransit(c, total_time, route_points, reqs, src_station_coord,
                        dst_station_coord, dst, budget)

(* Lines 422-476: one iteration with both stations resolved; budget bounds  *)
(* the answers that are not a route.                                        *)
PairOutcomes(c, budget) ==
    LET src == start_points[c[1] + 1]
        dst == end_points[c[2] + 1]
        src_station_series == src_stations_series[c[1] + 1][1]
        dst_station_series == dst_stations_series[c[2] + 1][1]
        src_station_coord == Coord(src_station_series)
        dst_station_coord == Coord(dst_station_series)
        route_points == <<src, src_station_coord, dst_station_coord, dst>>
    IN UNION { LET r1 == DirectionsRequest(c, 1, src, src_station_coord, "walking", a1)
               IN IF a1 = "route"
                  THEN PairLeg2(c, ServiceDuration(src, src_station_coord, "walking"),
                                <<r1>>, src, src_station_series, dst_station_coord, dst,
                                budget)
                  ELSE {PairFailed(<<r1>>, 1, route_points)}
               : a1 \in DirectionsAnswers(budget) }

NumPairs == Len(start_points) * Len(end_points)

(* Mutant: every iteration works on the first pair *)
PairAtFirst(k) == <<0, 0>>

(* itertools.product(range(num_starts), range(num_ends)), pair number k *)
PairAt(k) == <<k \div Len(end_points), k % Len(end_points)>>

(* One iteration of the loop of line 417 *)
MatrixPair ==
    /\ matrix_pc = "pairs"
    /\ pair_k < NumPairs
    /\ LET c == PairAt(pair_k)
       IN IF src_stations_series[c[1] + 1] = NoStation
             \/ dst_stations_series[c[2] + 1] = NoStation
          THEN /\ route_matrix' = [route_matrix EXCEPT ![c] = RouteList(<<>>)]
               /\ UNCHANGED <<travel_time_matrix, env_vars>>
          ELSE \E out \in PairOutcomes(c, MaxFaults - faults) :
                  /\ travel_time_matrix' = [travel_time_matrix EXCEPT ![c] = out.time]
                  /\ route_matrix' = [route_matrix EXCEPT ![c] = out.route]
                  /\ requests' = requests \o out.reqs
                  /\ faults' = faults + out.faults
    /\ pair_k' = pair_k + 1
    /\ UNCHANGED <<matrix_pc, mode, start_points, end_points, src_stations_series,
                   dst_stations_series, walk_to_src_matrix, bike_matrix,
                   registry_vars, nearest, single, departure, nearby_call, batch_vars>>

(* Line 478 *)
MatrixPairsDone ==
    /\ matrix_pc = "pairs"
    /\ pair_k >= NumPairs
    /\ matrix_pc' = "returned"
    /\ UNCHANGED <<mode, start_points, end_points, src_stations_series,
                   dst_stations_series, travel_time_matrix, route_matrix,
                   walk_to_src_matrix, bike_matrix, pair_k, registry_vars, nearest, single, departure, nearby_call,
                   batch_vars, env_vars>>

(* calculate_travel_time, lines 229-332 *)

(* Radii a single-pair call is made with; 1 is the default *)
SingleRadii == {1, SearchRadius}

(* The pair index under which the requests of a single-pair call are logged *)
SinglePair == <<0, 0>>

(* The result is None, or a total and the waypoints.  The total is a float  *)
(* with the terms (km / METRO_SPEED) * 3600 unrounded: seconds7 holds seven *)
(* times the total, 3600 / 28 being 900 / 7.                                *)
SingleNone(reqs, nfaults) == [result |-> <<>>, reqs |-> reqs, faults |-> nfaults]

SingleTotal(seconds7, route_points, reqs, nfaults) ==
    [result |-> <<[seconds7 |-> seconds7, route |-> route_points]>>,
     reqs |-> reqs, faults |-> nfaults]

(* (distance_km / METRO_SPEED) * 3600, times seven *)
MetroSeconds7(distance_km) == (distance_km * 3600 * 7) \div METRO_SPEED

(* Mutant: a failed egress walk returns the total of the first two legs *)
SingleLeg3Partial(seconds7, route_points, reqs, nfaults, dst_station_coord, dst, budget) ==
    { LET r3 == DirectionsRequest(SinglePair, 3, dst_station_coord, dst, "walking", a3)
      IN IF a3 = "route"
         THEN SingleTotal(seconds7 + 7 * ServiceDuration(dst_station_coord, dst, "walking"),
                          route_points, Append(reqs, r3), nfaults)
         ELSE SingleTotal(seconds7, route_points, Append(reqs, r3), nfaults + 1)
      : a3 \in DirectionsAnswers(budget - nfaults) }

(* Lines 322-328: Leg 3 and the return *)
SingleLeg3(seconds7, route_points, reqs, nfaults, dst_station_coord, dst, budget) ==
    { LET r3 == DirectionsRequest(SinglePair, 3, dst_station_coord, dst, "walking", a3)
      IN IF a3 = "route"
         THEN SingleTotal(seconds7 + 7 * ServiceDuration(dst_station_coord, dst, "walking"),
                          route_points, Append(reqs, r3), nfaults)
         ELSE SingleNone(Append(reqs, r3), nfaults + 1)
      : a3 \in DirectionsAnswers(budget - nfaults) }

(* Lines 279-320: Leg 2 *)
SingleLeg2(md, radius_km, seconds7, reqs, src, src_station, dst_station_coord, dst, budget) ==
    LET src_station_coord == Coord(src_station)
        route_points == <<src, src_station_coord, dst_station_coord, dst>>
    IN IF md = "citibike"
       THEN UNION { LET r2 == DirectionsRequest(SinglePair, 2, src_station_coord,
                                                dst_station_coord, "bicycling", a2)
                    IN IF a2 = "route"
                       THEN SingleLeg3(seconds7
                                         + 7 * ServiceDuration(src_station_coord,
                                                               dst_station_coord, "bicycling"),
                                       route_points, Append(reqs, r2), 0,
                                       dst_station_coord, dst, budget)
                       ELSE {SingleNone(Append(reqs, r2), 1)}
                    : a2 \in DirectionsAnswers(budget) }
       ELSE IF IsVirtual(src_station)
       THEN LET nearby == FindStationsWithinRadius(citibike_stations, subway_stations,
                                                   src_station_coord, radius_km)[md]
            IN IF Len(nearby) < 2
               THEN {SingleNone(reqs, 0)}
               ELSE LET nearest_real_station == nearby[2]
                        nearest_real_station_coord == Coord(nearest_real_station)
                    IN UNION { LET r2 == DirectionsRequest(SinglePair, 2,
                                                           nearest_real_station_coord,
                                                           dst_station_coord, "transit", a2)
                               IN IF a2 = "route"
                                  THEN SingleLeg3(seconds7
                                                    + MetroSeconds7(nearest_real_station.distance_km)
                                                    + 7 * ServiceDuration(nearest_real_station_coord,
                                                                          dst_station_coord,
                                                                          "transit"),
                                                  <<src, src_station_coord,
                                                    nearest_real_station_coord,
                                                    dst_station_coord, dst>>,
                                                  Append(reqs, r2), 0,
                                                  dst_station_coord, dst, budget)
                                  ELSE {SingleNone(Append(reqs, r2), 1)}
                               : a2 \in DirectionsAnswers(budget) }
       ELSE UNION { LET r2 == DirectionsRequest(SinglePair, 2, src_station_coord,
                                                dst_station_coord, "transit", a2)
                    IN IF a2 = "raise"
                       THEN {SingleNone(Append(reqs, r2), 1)}
                       ELSE SingleLeg3(seconds7
                                         + (IF a2 = "route"
                                            THEN 7 * ServiceDuration(src_station_coord,
                                                                     dst_station_coord,
                                                                     "transit")
                                            ELSE MetroSeconds7(Haversine(src_station_coord,
                                                                         dst_station_coord))),
                                       route_points, Append(reqs, r2), Fault(a2),
                                       dst_station_coord, dst, budget)
                    : a2 \in DirectionsAnswers(budget) }

(* Lines 251-332: the outcomes of one call *)
TravelTimeOutcomes(md, src, dst, radius_km, budget) ==
    IF md \notin ValidModes THEN {SingleNone(<<>>, 0)}
    ELSE LET near_src == FindStationsWithinRadius(citibike_stations, subway_stations,
                                                  src, radius_km)[md]
             near_dst == FindStationsWithinRadius(citibike_stations, subway_stations,
                                                  dst, radius_km)[md]
         IN IF near_src = <<>> \/ near_dst = <<>> THEN {SingleNone(<<>>, 0)}
            ELSE LET src_station == near_src[1]
                     dst_station == near_dst[1]
                     r1(a1) == DirectionsRequest(SinglePair, 1, src, Coord(src_station),
                                                 "walking", a1)
                 IN UNION { IF a1 = "route"
                            THEN SingleLeg2(md, radius_km,
                                            7 * ServiceDuration(src, Coord(src_station),
                                                                "walking"),
                                            <<r1(a1)>>, src, src_station,
                                            Coord(dst_station), dst, budget)
                            ELSE {SingleNone(<<r1(a1)>>, 1)}
                            : a1 \in DirectionsAnswers(budget) }

(* A call of calculate_travel_time(src, dst, mode, radius_km) *)
TravelTime ==
    /\ Idle
    /\ \E md \in ValidModes \cup {"bus"}, src \in StartCoords, dst \in EndCoords,
          radius_km \in SingleRadii :
          \E out \in TravelTimeOutcomes(md, src, dst, radius_km, MaxFaults - faults) :
             /\ single' = [called |-> TRUE, src |-> src, dst |-> dst, mode |-> md,
                           radius_km |-> radius_km, result |-> out.result]
             /\ requests' = requests \o out.reqs
             /\ faults' = faults + out.faults
    /\ UNCHANGED <<registry_vars, nearest, departure, nearby_call, matrix_vars, batch_vars>>

(* The registries a matrix call is explored on *)
MatrixLoads ==
    {[graph |-> CitibikeGraph, feed |-> FeedClean, source |-> "csv"],
     [graph |-> CitibikeGraphNoCoords, feed |-> FeedEmpty, source |-> "csv"]}

InitMatrix ==
    /\ RegistryInit(MatrixLoads)
    /\ nearest = NoCall /\ single = NoSingle /\ departure = NoDeparture
    /\ nearby_call = NoNearby /\ MatrixInit /\ BatchInit /\ EnvInit

NextMatrix ==
    \/ InsertStation
    \/ MatrixCall
    \/ BatchRequest
    \/ BatchReturn
    \/ MatrixLeg1Done
    \/ MatrixLeg2Done
    \/ MatrixLeg3Done
    \/ MatrixPair
    \/ MatrixPairsDone
    \/ TravelTime

SpecMatrix == InitMatrix /\ [][NextMatrix]_vars

(* The simulator as a whole: station inserts, then one call *)
Init == InitMatrix

Next == NextMatrix \/ BatchCall

Spec == Init /\ [][Next]_vars

----------------------------------------------------------------------------
(* Properties of batch_distance_matrix_call *)

(* The requests of the current call, as indices into the log *)
CallRequests ==
    {k \in 1..Len(requests) :
        requests[k].api = "distance_matrix" /\ requests[k].call = batch_call}

BlockCells(r) ==
    {<<r.i + oi, r.j + di>> : oi \in 0..(Len(r.origins) - 1),
                              di \in 0..(Len(r.destinations) - 1)}

(* The response element the service gave for full-matrix cell c in request r *)
ElementAt(r, c) == r.response.rows[<<c[1] - r.i, c[2] - r.j>>]

WellFormed(r) ==
    /\ ~r.response.raised
    /\ \A e \in DOMAIN r.response.rows : ~ElementRaises(r.response.rows[e])

ExpectedRequests ==
    CeilDiv(Len(origins), MaxOriginsPerBatch(max_elements))
    * CeilDiv(Len(destinations), MaxDestsPerBatch(max_elements))

(* C3: a cell is numeric only if its response element had status OK, and    *)
(* then holds that element's duration; an element with another status       *)
(* leaves its own cell NaN and stops no other cell of its sub-batch or of   *)
(* a later sub-batch from being written.                                    *)
C3_ElementStatus ==
    /\ \A c \in DOMAIN time_matrix :
          time_matrix[c] # NaN =>
             \E k \in CallRequests :
                /\ c \in BlockCells(requests[k])
                /\ ~requests[k].response.raised
                /\ ElementAt(requests[k], c).status = "OK"
                /\ ~ElementRaises(ElementAt(requests[k], c))
                /\ time_matrix[c] = ElementAt(requests[k], c).duration
    /\ \A k \in CallRequests :
          WellFormed(requests[k]) =>
             \A c \in BlockCells(requests[k]) :
                IF ElementAt(requests[k], c).status = "OK"
                THEN time_matrix[c] = ElementAt(requests[k], c).duration
                ELSE time_matrix[c] = NaN
    /\ batch_pc = "returned" =>
          \A c \in DOMAIN time_matrix :
             \E k \in CallRequests : c \in BlockCells(requests[k])

C3_Witness ==
    /\ batch_pc = "returned"
    /\ \E k \in CallRequests :
          /\ WellFormed(requests[k])
          /\ \E c, d \in BlockCells(requests[k]) :
                /\ ElementAt(requests[k], c).status # "OK"
                /\ time_matrix[c] = NaN
                /\ ElementAt(requests[k], d).status = "OK"
                /\ time_matrix[d] # NaN
          /\ \E l \in CallRequests :
                /\ l > k
                /\ \E c \in BlockCells(requests[l]) : time_matrix[c] # NaN

(* C4: every request carries at most 25 origins, at most 25 destinations    *)
(* and at most max_elements elements; the batch sizes are                   *)
(* min(25, floor(sqrt(max_elements))) and min(25, floor(max_elements /      *)
(* batchOrigins)), the same for every sub-batch of the call.                *)
C4_BatchSizes ==
    /\ batch_pc # "idle" =>
          LET me == max_elements
              bo == MaxOriginsPerBatch(me)
              bd == MaxDestsPerBatch(me)
          IN /\ 1 <= bo /\ bo <= 25 /\ bo * bo <= me
             /\ bo < 25 => (bo + 1) * (bo + 1) > me
             /\ 1 <= bd /\ bd <= 25 /\ bo * bd <= me
             /\ bd < 25 => bo * (bd + 1) > me
    /\ \A k \in CallRequests :
          LET r == requests[k]
              bo == MaxOriginsPerBatch(max_elements)
              bd == MaxDestsPerBatch(max_elements)
          IN /\ Len(r.origins) <= 25
             /\ Len(r.destinations) <= 25
             /\ Len(r.origins) * Len(r.destinations) <= max_elements
             /\ r.i % bo = 0
             /\ r.j % bd = 0
             /\ Len(r.origins) = Min(bo, Len(origins) - r.i)
             /\ Len(r.destinations) = Min(bd, Len(destinations) - r.j)
             /\ Len(r.origins) >= 1
             /\ Len(r.destinations) >= 1

C4_Witness ==
    /\ batch_pc = "returned"
    /\ max_elements = 4
    /\ Len(origins) = 3
    /\ Len(destinations) = 3
    /\ Cardinality(CallRequests) = 4

(* C5: when every request succeeds, the assembled matrix equals, cell for   *)
(* cell, the matrix of one unbounded request over all origins and           *)
(* destinations.                                                            *)
SingleRequestCell(c) ==
    IF \E k \in CallRequests :
          c \in BlockCells(requests[k]) /\ ElementAt(requests[k], c).status # "OK"
    THEN NaN
    ELSE ServiceDuration(origins[c[1] + 1], destinations[c[2] + 1], travel_mode)

C5_BatchEqualsSingle ==
    (batch_pc = "returned" /\ \A k \in CallRequests : WellFormed(requests[k])) =>
        /\ DOMAIN time_matrix = Cells(Len(origins), Len(destinations))
        /\ \A c \in DOMAIN time_matrix : time_matrix[c] = SingleRequestCell(c)

C5_Witness ==
    /\ batch_pc = "returned"
    /\ \A k \in CallRequests : WellFormed(requests[k])
    /\ Cardinality(CallRequests) >= 4
    /\ Len(origins) = 3
    /\ Len(destinations) = 3
    /\ \E c \in DOMAIN time_matrix : time_matrix[c] = NaN
    /\ \E c \in DOMAIN time_matrix : time_matrix[c] # NaN

(* The first element of request r, in row-major order, whose read raises *)
FirstRaising(r) ==
    LET nd == Len(r.destinations)
        pos(e) == e[1] * nd + e[2]
        bad == {e \in DOMAIN r.response.rows : ElementRaises(r.response.rows[e])}
    IN CHOOSE e \in bad : \A f \in bad : pos(e) <= pos(f)

ReadBefore(r, c, e) ==
    (c[1] - r.i) * Len(r.destinations) + (c[2] - r.j)
        < e[1] * Len(r.destinations) + e[2]

(* C6 as claimed: when handling a sub-batch raises, in the request or while *)
(* reading the response, every cell of its sub-block is NaN on return.      *)
C6_RaisedBlockAllNaN ==
    batch_pc = "returned" =>
        \A k \in CallRequests :
            ~WellFormed(requests[k]) =>
                \A c \in BlockCells(requests[k]) : time_matrix[c] = NaN

(* C6 amended: when the request of a sub-batch raises, every cell of its    *)
(* sub-block is NaN on return; when reading its response raises, the cells  *)
(* read before the failing element keep what was read and the rest of the   *)
(* sub-block is NaN; either way the call returns, every remaining sub-batch *)
(* is requested and its results are written.                                *)
C6_RaisedBlockAmended ==
    batch_pc = "returned" =>
        /\ Cardinality(CallRequests) = ExpectedRequests
        /\ \A k \in CallRequests :
              LET r == requests[k]
              IN /\ r.response.raised =>
                       \A c \in BlockCells(r) : time_matrix[c] = NaN
                 /\ (~r.response.raised /\ ~WellFormed(r)) =>
                       \A c \in BlockCells(r) :
                          IF ReadBefore(r, c, FirstRaising(r))
                             /\ ElementAt(r, c).status = "OK"
                          THEN time_matrix[c] = ElementAt(r, c).duration
                          ELSE time_matrix[c] = NaN
                 /\ WellFormed(r) =>
                       \A c \in BlockCells(r) :
                          ElementAt(r, c).status = "OK" =>
                             time_matrix[c] = ElementAt(r, c).duration

C6_Witness ==
    /\ batch_pc = "returned"
    /\ \E k, l \in CallRequests :
          /\ k < l
          /\ requests[k].response.raised
          /\ WellFormed(requests[l])
          /\ \E c \in BlockCells(requests[l]) : time_matrix[c] # NaN
    /\ \E k, l \in CallRequests :
          /\ k < l
          /\ WellFormed(requests[k])
          /\ \E c \in BlockCells(requests[k]) : time_matrix[c] # NaN
          /\ ~WellFormed(requests[l])

----------------------------------------------------------------------------
(* Properties of station resolution *)

TableOf(md) == IF md = "citibike" THEN citibike_stations ELSE subway_stations

IsRowOf(table, st) ==
    \E k \in 1..Len(table) :
        /\ table[k].station_name = st.station_name
        /\ table[k].latitude = st.latitude
        /\ table[k].longitude = st.longitude

SomeWithin(table, location, radius_km) ==
    \E k \in 1..Len(table) :
        Haversine(location, <<table[k].latitude, table[k].longitude>>) <= radius_km

(* C8: with a non-empty station table of the mode,                          *)
(* pre_calculate_nearest_stations returns one station per point, in input   *)
(* order and never None: one within the radius when there is one, else one  *)
(* from the unbounded fallback, also for a point at a station's place.      *)
C8_NeverUnassigned ==
    (nearest.called /\ nearest.mode \in ValidModes /\ TableOf(nearest.mode) # <<>>) =>
        /\ Len(nearest.nearest_stations) = Len(nearest.points)
        /\ \A k \in 1..Len(nearest.points) :
              LET entry == nearest.nearest_stations[k]
              IN /\ entry # NoStation
                 /\ Len(entry) = 1
                 /\ IsRowOf(TableOf(nearest.mode), entry[1])
                 /\ entry[1].distance_km =
                       Haversine(nearest.points[k],
                                 <<entry[1].latitude, entry[1].longitude>>)
                 /\ SomeWithin(TableOf(nearest.mode), nearest.points[k], nearest.radius_km)
                       => entry[1].distance_km <= nearest.radius_km

C8_Witness ==
    /\ nearest.called
    /\ nearest.mode = "subway"
    /\ Len(nearest.points) = 2
    /\ nearest.points[1] = <<0, 0>>
    /\ nearest.nearest_stations[1] # NoStation
    /\ nearest.nearest_stations[1][1].distance_km = 0
    /\ nearest.nearest_stations[2] # NoStation
    /\ nearest.nearest_stations[2][1].distance_km > nearest.radius_km

----------------------------------------------------------------------------
(* Properties of calculate_travel_time_matrix *)

RouteEmpty(route) == ~route.written \/ route.points = <<>>

(* C1: on every return path, in every mode and for every cell, the route    *)
(* cell holds a non-empty waypoint list if and only if the time cell is not *)
(* NaN (a cell never written, or [], is empty).                             *)
C1_RouteIffTime ==
    matrix_pc = "returned" =>
        /\ DOMAIN travel_time_matrix = Cells(Len(start_points), Len(end_points))
        /\ DOMAIN route_matrix = DOMAIN travel_time_matrix
        /\ \A c \in DOMAIN travel_time_matrix :
              ~RouteEmpty(route_matrix[c]) <=> travel_time_matrix[c] # NaN

C1_Witness ==
    /\ matrix_pc = "returned"
    /\ mode = "subway"
    /\ \E c, d \in DOMAIN travel_time_matrix :
          /\ travel_time_matrix[c] = NaN
          /\ route_matrix[c] = RouteList(<<>>)
          /\ travel_time_matrix[d] # NaN
          /\ Len(route_matrix[d].points) >= 4

(* The element of the batched call number call that was read for cell c of  *)
(* its matrix: the set is empty when the request raised, when the read      *)
(* raised at or before the element, or when no route was found.             *)
ReadElements(call, c) ==
    { ElementAt(requests[k], c) :
        k \in {l \in 1..Len(requests) :
                 /\ requests[l].api = "distance_matrix"
                 /\ requests[l].call = call
                 /\ c \in BlockCells(requests[l])
                 /\ ~requests[l].response.raised
                 /\ ElementAt(requests[l], c).status = "OK"
                 /\ \A e \in DOMAIN requests[l].response.rows :
                       ElementRaises(requests[l].response.rows[e])
                          => ReadBefore(requests[l], c, e)} }

DirectionsOf(c, leg) ==
    { requests[k] : k \in {l \in 1..Len(requests) :
                              /\ requests[l].api = "directions"
                              /\ requests[l].pair = c
                              /\ requests[l].leg = leg} }

(* The three legs of pair c as the routing service answered them: a set     *)
(* with the leg's seconds when the leg resolved, the empty set when not.    *)
AccessWalk(c) ==
    IF mode = "citibike"
    THEN {e.duration : e \in ReadElements(1, <<c[1], c[1]>>)}
    ELSE {ServiceDuration(r.origin, r.destination, "walking") :
            r \in {q \in DirectionsOf(c, 1) : q.response = "route"}}

Transit(c) ==
    IF mode = "citibike"
    THEN {e.duration : e \in ReadElements(2, c)}
    ELSE LET station == Coord(src_stations_series[c[1] + 1][1])
         IN { (IF r.origin # station
               THEN MetroSeconds(Haversine(station, r.origin)) ELSE 0)
              + (IF r.response = "route"
                 THEN ServiceDuration(r.origin, r.destination, "transit")
                 ELSE MetroSeconds(Haversine(r.origin, r.destination))) :
              r \in {q \in DirectionsOf(c, 2) : q.response # "raise"} }

EgressWalk(c) ==
    IF mode = "citibike"
    THEN {e.duration : e \in ReadElements(3, <<c[2], c[2]>>)}
    ELSE {ServiceDuration(r.origin, r.destination, "walking") :
            r \in {q \in DirectionsOf(c, 3) : q.response = "route"}}

(* C2: a cell holds a total only if the access walk, the transit leg and    *)
(* the egress walk of its pair all resolved, and the total is then their    *)
(* sum; with a leg unresolved the cell is NaN and its route empty.          *)
C2_TotalOfThreeLegs ==
    matrix_pc = "returned" =>
        \A c \in DOMAIN travel_time_matrix :
            IF AccessWalk(c) # {} /\ Transit(c) # {} /\ EgressWalk(c) # {}
            THEN \E l1 \in AccessWalk(c), l2 \in Transit(c), l3 \in EgressWalk(c) :
                    travel_time_matrix[c] = l1 + l2 + l3
            ELSE travel_time_matrix[c] = NaN /\ RouteEmpty(route_matrix[c])

C2_Witness ==
    /\ matrix_pc = "returned"
    /\ mode = "citibike"
    /\ \E c, d \in DOMAIN travel_time_matrix :
          /\ travel_time_matrix[c] # NaN
          /\ AccessWalk(d) # {} /\ Transit(d) # {} /\ EgressWalk(d) = {}
          /\ travel_time_matrix[d] = NaN

C2_WitnessSubway ==
    /\ matrix_pc = "returned"
    /\ mode = "subway"
    /\ \E c, d \in DOMAIN travel_time_matrix :
          /\ travel_time_matrix[c] # NaN
          /\ Len(route_matrix[c].points) = 5
          /\ AccessWalk(d) # {} /\ Transit(d) = {}
          /\ travel_time_matrix[d] = NaN

(* C9 as claimed: a call with a mode other than citibike or subway is       *)
(* rejected before any routing request and is not processed as a valid      *)
(* mode.                                                                    *)
C9_InvalidModeRejected ==
    (matrix_pc # "idle" /\ mode \notin ValidModes) =>
        /\ requests = <<>>
        /\ \A c \in DOMAIN travel_time_matrix :
              travel_time_matrix[c] = NaN /\ RouteEmpty(route_matrix[c])

IsGenuineAt(coord) ==
    \E k \in 1..Len(subway_stations) :
        /\ Coord(subway_stations[k]) = coord
        /\ subway_stations[k].station_name \in original_subway_station_names

(* C10 as claimed: when the origin's station is virtual, the third of the   *)
(* five waypoints is a genuine station, is not the virtual station, and is  *)
(* the genuine station nearest to the virtual station.                      *)
C10_DetourIsNearestGenuine ==
    \A c \in DOMAIN route_matrix :
        (/\ mode = "subway"
         /\ route_matrix[c].written
         /\ Len(route_matrix[c].points) = 5) =>
            LET virtual == route_matrix[c].points[2]
                detour == route_matrix[c].points[3]
            IN /\ IsGenuineAt(detour)
               /\ detour # virtual
               /\ \A k \in 1..Len(subway_stations) :
                     subway_stations[k].station_name \in original_subway_station_names
                        => Haversine(virtual, detour)
                              <= Haversine(virtual, Coord(subway_stations[k]))

(* C7: a call of batch_distance_matrix_call sends one request per sub-batch *)
(* and no more, ceil(n / batchOrigins) * ceil(m / batchDests) in all,       *)
(* whether requests succeed or fail; while its loop runs the requests sent  *)
(* stay below that number, so the loop ends after that many iterations;     *)
(* the subway loop requests each leg of a pair at most once.                *)
C7_NoRetry ==
    /\ batch_pc # "idle" =>
          /\ Cardinality(CallRequests) <= ExpectedRequests
          /\ \A k, l \in CallRequests :
                (requests[k].i = requests[l].i /\ requests[k].j = requests[l].j) => k = l
          /\ batch_pc = "returned" => Cardinality(CallRequests) = ExpectedRequests
          /\ (batch_pc = "loop" /\ LoopRunning) =>
                Cardinality(CallRequests) < ExpectedRequests
          /\ (batch_pc = "loop" /\ ~LoopRunning) =>
                Cardinality(CallRequests) = ExpectedRequests
    /\ \A c \in DOMAIN travel_time_matrix, leg \in 1..3 :
          Cardinality({k \in 1..Len(requests) :
                         /\ requests[k].api = "directions"
                         /\ requests[k].pair = c
                         /\ requests[k].leg = leg}) <= 1

C7_Witness ==
    /\ batch_pc = "returned"
    /\ matrix_pc = "idle"
    /\ ExpectedRequests = 6
    /\ Cardinality(CallRequests) = 6
    /\ \E k \in CallRequests : requests[k].response.raised
    /\ \E k \in CallRequests : ~requests[k].response.raised

(* The station resolved for the start of pair c *)
SrcStation(c) == src_stations_series[c[1] + 1][1]

DstStation(c) == dst_stations_series[c[2] + 1][1]

(* The transit leg of pair c from station `from`, as the service answered   *)
(* it or as the fallback estimates it                                       *)
TransitFrom(c, from) ==
    { IF r.response = "route"
      THEN ServiceDuration(r.origin, r.destination, "transit")
      ELSE MetroSeconds(Haversine(r.origin, r.destination)) :
      r \in {q \in DirectionsOf(c, 2) : q.response # "raise" /\ q.origin = from} }

(* C11: in subway mode a resolved pair has the five waypoints start,        *)
(* virtual access station, detour station, egress station, end exactly when *)
(* the station resolved for its start is virtual, and the four waypoints    *)
(* start, access station, egress station, end otherwise; with five          *)
(* waypoints the total is access walk + seconds of the virtual-to-detour    *)
(* distance at 28 km/h + transit from the detour station + egress walk.     *)
C11_WaypointsByVirtual ==
    (mode = "subway" /\ matrix_pc \in {"pairs", "returned"}) =>
        \A c \in DOMAIN travel_time_matrix :
            travel_time_matrix[c] # NaN =>
                LET points == route_matrix[c].points
                    src == start_points[c[1] + 1]
                    dst == end_points[c[2] + 1]
                IN /\ route_matrix[c].written
                   /\ Len(points) = 5 <=> IsVirtual(SrcStation(c))
                   /\ Len(points) = 4 <=> ~IsVirtual(SrcStation(c))
                   /\ Len(points) = 4 =>
                         points = <<src, Coord(SrcStation(c)), Coord(DstStation(c)), dst>>
                   /\ Len(points) = 5 =>
                         /\ points[1] = src
                         /\ points[2] = Coord(SrcStation(c))
                         /\ points[4] = Coord(DstStation(c))
                         /\ points[5] = dst
                         /\ \E l1 \in AccessWalk(c), l2 \in TransitFrom(c, points[3]),
                               l3 \in EgressWalk(c) :
                               travel_time_matrix[c] =
                                  l1 + MetroSeconds(Haversine(points[2], points[3]))
                                     + l2 + l3

C11_Witness ==
    /\ mode = "subway"
    /\ matrix_pc = "returned"
    /\ \E c, d \in DOMAIN travel_time_matrix :
          /\ travel_time_matrix[c] # NaN
          /\ IsVirtual(SrcStation(c))
          /\ Len(route_matrix[c].points) = 5
          /\ route_matrix[c].points[3] # route_matrix[c].points[2]
          /\ travel_time_matrix[d] # NaN
          /\ ~IsVirtual(SrcStation(d))
          /\ Len(route_matrix[d].points) = 4

(* Number of subway stations the search of the given radius finds around a  *)
(* station                                                                  *)
FoundAround(st, radius_km) ==
    Len(FindStationsWithinRadius(citibike_stations, subway_stations,
                                 Coord(st), radius_km).subway)

(* The pairs of the subway loop already processed *)
PairsProcessed ==
    IF matrix_pc = "pairs" THEN {PairAt(k) : k \in 0..(pair_k - 1)}
    ELSE IF matrix_pc = "returned" /\ mode # "citibike"
            /\ ValidIndices(src_stations_series) # <<>>
            /\ ValidIndices(dst_stations_series) # <<>>
         THEN DOMAIN travel_time_matrix
         ELSE {}

(* The stations a single-pair call resolved, as sequences of at most one *)
SingleStations(point) ==
    IF single.mode \in ValidModes
    THEN FindStationsWithinRadius(citibike_stations, subway_stations, point,
                                  single.radius_km)[single.mode]
    ELSE <<>>

(* C12: when the station resolved for the origin is virtual and the search  *)
(* around it finds no second station, the pair is unresolved (NaN and an    *)
(* empty route in the matrix, None from calculate_travel_time), the call    *)
(* still returns, and the other pairs of the matrix are processed.          *)
C12_NoSecondStation ==
    /\ mode = "subway" =>
          /\ \A c \in PairsProcessed :
                (IsVirtual(SrcStation(c)) /\ FoundAround(SrcStation(c), SearchRadius) < 2)
                   => /\ travel_time_matrix[c] = NaN
                      /\ route_matrix[c] = RouteList(<<>>)
                      /\ DirectionsOf(c, 2) = {} /\ DirectionsOf(c, 3) = {}
          /\ matrix_pc = "returned" =>
                \A c \in PairsProcessed : route_matrix[c].written
    /\ (single.called /\ single.mode = "subway"
          /\ SingleStations(single.src) # <<>> /\ SingleStations(single.dst) # <<>>) =>
          LET src_station == SingleStations(single.src)[1]
          IN (IsVirtual(src_station) /\ FoundAround(src_station, single.radius_km) < 2)
                => single.result = <<>>

C12_Witness ==
    /\ mode = "subway"
    /\ matrix_pc = "returned"
    /\ \E c, d \in PairsProcessed :
          /\ c[1] < d[1]
          /\ IsVirtual(SrcStation(c))
          /\ FoundAround(SrcStation(c), SearchRadius) < 2
          /\ travel_time_matrix[c] = NaN
          /\ DirectionsOf(c, 1) # {}
          /\ travel_time_matrix[d] # NaN

C12_WitnessSingle ==
    /\ single.called
    /\ single.mode = "subway"
    /\ SingleStations(single.src) # <<>>
    /\ SingleStations(single.dst) # <<>>
    /\ IsVirtual(SingleStations(single.src)[1])
    /\ FoundAround(SingleStations(single.src)[1], single.radius_km) < 2
    /\ requests # <<>>
    /\ single.result = <<>>

(* Every answer of the routing service so far is without a route: each      *)
(* element of a distance-matrix response has a status other than OK, each   *)
(* directions result is empty.                                              *)
NeverARoute ==
    /\ requests # <<>>
    /\ \A k \in 1..Len(requests) :
          IF requests[k].api = "distance_matrix"
          THEN /\ ~requests[k].response.raised
               /\ \A e \in DOMAIN requests[k].response.rows :
                     requests[k].response.rows[e].status # "OK"
          ELSE requests[k].response = "empty"

(* C13 as claimed: with a service that never returns a route, a citibike    *)
(* call returns NaN in every cell and a subway call returns a               *)
(* haversine-derived number in every cell.                                  *)
C13_NoRouteService ==
    (matrix_pc = "returned" /\ NeverARoute) =>
        /\ mode = "citibike" =>
              \A c \in DOMAIN travel_time_matrix : travel_time_matrix[c] = NaN
        /\ mode = "subway" =>
              \A c \in DOMAIN travel_time_matrix : travel_time_matrix[c] # NaN

(* The transit request of pair c did not give a route, after an access walk *)
(* that did                                                                 *)
TransitFailedAlone(c) ==
    /\ \E r \in DirectionsOf(c, 1) : r.response = "route"
    /\ \E r \in DirectionsOf(c, 2) : r.response # "route"

(* C14 as claimed: in subway mode, when the transit request raises or       *)
(* returns no route, the leg takes the haversine estimate at 28 km/h, for a *)
(* genuine and for a virtual origin station alike: the computation goes on  *)
(* to the egress walk, and with that walk resolved the pair is resolved.    *)
C14_TransitFallback ==
    /\ mode = "subway" =>
          \A c \in PairsProcessed :
              TransitFailedAlone(c) =>
                 /\ DirectionsOf(c, 3) # {}
                 /\ EgressWalk(c) # {} => travel_time_matrix[c] # NaN
    /\ (single.called /\ single.mode = "subway" /\ TransitFailedAlone(SinglePair)) =>
          /\ DirectionsOf(SinglePair, 3) # {}
          /\ (\E r \in DirectionsOf(SinglePair, 3) : r.response = "route")
                => single.result # <<>>

(* The batched calls that sent a walking request *)
WalkingCalls ==
    {requests[k].call : k \in {l \in 1..Len(requests) :
                                  /\ requests[l].api = "distance_matrix"
                                  /\ requests[l].mode = "walking"}}

(* C15 as claimed: in every mode calculate_travel_time_matrix sends its     *)
(* walking requests through one batched call for the access walks and one   *)
(* for the egress walks, and sends no walking request for a single (start,  *)
(* end) pair.                                                               *)
C15_BatchedWalks ==
    (matrix_pc # "idle" /\ mode \in ValidModes) =>
        /\ \A k \in 1..Len(requests) :
              requests[k].mode = "walking" => requests[k].api = "distance_matrix"
        /\ Cardinality(WalkingCalls) <= 2

(* The citibike branch has combined its three batched calls *)
CitibikeCombined ==
    /\ mode = "citibike"
    /\ matrix_pc = "returned"
    /\ ValidIndices(src_stations_series) # <<>>
    /\ ValidIndices(dst_stations_series) # <<>>

(* Every request so far was answered, with status OK and a duration in      *)
(* every element                                                            *)
AllResolvable ==
    \A k \in 1..Len(requests) :
        /\ requests[k].api = "distance_matrix"
        /\ ~requests[k].response.raised
        /\ \A e \in DOMAIN requests[k].response.rows :
              /\ requests[k].response.rows[e].status = "OK"
              /\ ~ElementRaises(requests[k].response.rows[e])

PointsOf(r) ==
    IF r.api = "distance_matrix"
    THEN {r.origins[k] : k \in 1..Len(r.origins)}
         \cup {r.destinations[k] : k \in 1..Len(r.destinations)}
    ELSE {r.origin, r.destination}

Unrequested(point) == \A k \in 1..Len(requests) : point \notin PointsOf(requests[k])

(* C17: on return, in either mode, a start without a resolved station has   *)
(* its whole row NaN with empty routes, an end without one its whole        *)
(* column, and no request names such a point.                               *)
C17_UnresolvedRowsAndColumns ==
    matrix_pc = "returned" =>
        /\ \A i \in 1..Len(start_points) :
              src_stations_series[i] = NoStation =>
                 /\ \A j \in 1..Len(end_points) :
                       /\ travel_time_matrix[<<i - 1, j - 1>>] = NaN
                       /\ RouteEmpty(route_matrix[<<i - 1, j - 1>>])
                 /\ Unrequested(start_points[i])
        /\ \A j \in 1..Len(end_points) :
              dst_stations_series[j] = NoStation =>
                 /\ \A i \in 1..Len(start_points) :
                       /\ travel_time_matrix[<<i - 1, j - 1>>] = NaN
                       /\ RouteEmpty(route_matrix[<<i - 1, j - 1>>])
                 /\ Unrequested(end_points[j])

C17_Witness ==
    /\ matrix_pc = "returned"
    /\ mode = "subway"
    /\ Len(start_points) = MaxStarts
    /\ Len(end_points) = MaxEnds
    /\ src_stations_series[1] = NoStation
    /\ dst_stations_series[2] = NoStation
    /\ travel_time_matrix[<<0, 1>>] = NaN
    /\ requests = <<>>

(* C18: a call with an empty table of starts or of ends, in either mode,    *)
(* returns at once a time matrix and a route matrix of num_starts x         *)
(* num_ends, which has no cell, and sends no request.                       *)
C18_EmptyInputs ==
    (matrix_pc # "idle" /\ (start_points = <<>> \/ end_points = <<>>)) =>
        /\ matrix_pc = "returned"
        /\ batch_pc = "idle"
        /\ DOMAIN travel_time_matrix = Cells(Len(start_points), Len(end_points))
        /\ DOMAIN route_matrix = Cells(Len(start_points), Len(end_points))
        /\ DOMAIN travel_time_matrix = {}
        /\ requests = <<>>

C18_Witness ==
    /\ matrix_pc = "returned"
    /\ mode = "subway"
    /\ subway_stations # <<>>
    /\ start_points = <<>>
    /\ Len(end_points) = MaxEnds
    /\ dst_stations_series[1] # NoStation
    /\ DOMAIN travel_time_matrix = {}

(* One iteration of the subway loop leaves every cell written before as it  *)
(* was and writes one more cell.                                            *)
PairStepIsLocal ==
    (matrix_pc = "pairs" /\ pair_k' = pair_k + 1) =>
        /\ \A d \in DOMAIN route_matrix :
              route_matrix[d].written =>
                 /\ route_matrix'[d] = route_matrix[d]
                 /\ travel_time_matrix'[d] = travel_time_matrix[d]
        /\ Cardinality({d \in DOMAIN route_matrix : route_matrix'[d].written})
              = Cardinality({d \in DOMAIN route_matrix : route_matrix[d].written}) + 1

(* In the subway loop a cell is written once its pair was processed, with   *)
(* a total and waypoints or with NaN and an empty route; on return every    *)
(* cell is written.                                                         *)
PairsAllWritten ==
    /\ matrix_pc = "pairs" =>
          \A d \in DOMAIN route_matrix :
              route_matrix[d].written <=> d \in PairsProcessed
    /\ \A d \in PairsProcessed :
          /\ route_matrix[d].written
          /\ travel_time_matrix[d] = NaN <=> route_matrix[d].points = <<>>

(* C19: in the subway loop a failed leg of pair (i, j) makes only cell      *)
(* (i, j) NaN with an empty route: the cells computed before keep their     *)
(* values, the later pairs are processed, and on return every cell holds a  *)
(* waypoint list or an empty route.                                         *)
C19_FailureIsLocal == []PairsAllWritten /\ [][PairStepIsLocal]_vars

C19_Witness ==
    /\ matrix_pc = "returned"
    /\ mode = "subway"
    /\ DOMAIN travel_time_matrix = Cells(MaxStarts, MaxEnds)
    /\ travel_time_matrix[<<0, 0>>] # NaN
    /\ travel_time_matrix[<<0, 1>>] = NaN
    /\ route_matrix[<<0, 1>>] = RouteList(<<>>)
    /\ DirectionsOf(<<0, 1>>, 1) # {}
    /\ travel_time_matrix[<<1, 0>>] # NaN
    /\ travel_time_matrix[<<1, 1>>] # NaN

(* Orders in which the sub-batches of a call are replayed: every order of   *)
(* up to MaxShuffled sub-batches, the sequential and the reversed order of  *)
(* more                                                                     *)
MaxShuffled == 4

RECURSIVE Ascending(_)
Ascending(S) ==
    IF S = {} THEN <<>>
    ELSE LET x == CHOOSE x \in S : \A y \in S : x <= y
         IN <<x>> \o Ascending(S \ {x})

Reverse(seq) == [k \in 1..Len(seq) |-> seq[Len(seq) + 1 - k]]

RECURSIVE Orders(_)
Orders(S) ==
    IF S = {} THEN {<<>>}
    ELSE UNION {{<<x>> \o rest : rest \in Orders(S \ {x})} : x \in S}

ReplayOrders ==
    IF Cardinality(CallRequests) <= MaxShuffled THEN Orders(CallRequests)
    ELSE {Ascending(CallRequests), Reverse(Ascending(CallRequests))}

(* The matrix after the logged answers are handled in the given order *)
RECURSIVE Replay(_, _, _)
Replay(tm, order, k) ==
    IF k > Len(order) THEN tm
    ELSE LET r == requests[order[k]]
         IN Replay(HandleSubBatch(tm, r.i, r.j, Len(r.origins), Len(r.destinations),
                                  r.response),
                   order, k + 1)

(* C20: the sub-batches of a call of batch_distance_matrix_call write       *)
(* pairwise disjoint blocks that together cover the matrix, and handling    *)
(* their answers in any order gives the matrix the sequential loop gives;   *)
(* a cell of the citibike combination is computed from the three leg        *)
(* matrices alone.                                                          *)
C20_OrderIndependent ==
    /\ batch_pc = "returned" =>
          /\ \A k, l \in CallRequests :
                k # l => BlockCells(requests[k]) \cap BlockCells(requests[l]) = {}
          /\ UNION {BlockCells(requests[k]) : k \in CallRequests} = DOMAIN time_matrix
          /\ DOMAIN time_matrix = Cells(Len(origins), Len(destinations))
          /\ \A order \in ReplayOrders :
                Replay(FullMatrix(Len(origins), Len(destinations), NaN), order, 1)
                   = time_matrix
    /\ CitibikeCombined =>
          \A c \in DOMAIN travel_time_matrix :
              LET i_idx == PositionOf(ValidIndices(src_stations_series), c[1])
                  j_idx == PositionOf(ValidIndices(dst_stations_series), c[2])
              IN travel_time_matrix[c] =
                    CitibikeCell(walk_to_src_matrix[<<i_idx, i_idx>>],
                                 bike_matrix[<<i_idx, j_idx>>],
                                 time_matrix[<<j_idx, j_idx>>], NaN, <<>>).time

C20_Witness ==
    /\ batch_pc = "returned"
    /\ matrix_pc = "idle"
    /\ Cardinality(CallRequests) = MaxShuffled
    /\ \E k, l \in CallRequests :
          /\ k < l
          /\ requests[k].response.raised
          /\ ~requests[l].response.raised
          /\ \E e \in DOMAIN requests[l].response.rows :
                requests[l].response.rows[e].status # "OK"
    /\ \E c \in DOMAIN time_matrix : time_matrix[c] # NaN

----------------------------------------------------------------------------
(* Properties of the station registry *)

(* C21 as claimed: after the load no operation of the Simulator writes to   *)
(* a station table of the registry: both tables are after every operation   *)
(* what they were before it.                                                *)
C21_RegistryNeverWritten ==
    [][/\ citibike_stations' = citibike_stations
       /\ subway_stations' = subway_stations]_vars

SameName(table) ==
    \E k, l \in 1..Len(table) :
        k # l /\ table[k].station_name = table[l].station_name

(* C22 as claimed: after the load from a CSV file or from the GTFS feed and *)
(* after any calls of insert_station, no two records of a network's table   *)
(* have the same station name.                                              *)
C22_NamesUnique ==
    ~SameName(citibike_stations) /\ ~SameName(subway_stations)

InsertedNames == {station[1] : station \in InsertChoices}

(* The classification of the subway stations: the set of original names is  *)
(* the set of names of the loaded table; a row under one of these names is  *)
(* genuine, a row under an inserted name is virtual, and the subway loop    *)
(* takes the route of a virtual station exactly for the inserted names.     *)
ClassifiedByLoad ==
    /\ inserts = 0 => original_subway_station_names = Names(subway_stations)
    /\ original_subway_station_names \cap InsertedNames = {}
    /\ \A k \in 1..Len(subway_stations) :
          /\ subway_stations[k].station_name \in InsertedNames
                => IsVirtual(subway_stations[k])
          /\ subway_stations[k].station_name \notin InsertedNames
                => /\ ~IsVirtual(subway_stations[k])
                   /\ subway_stations[k].station_name \in original_subway_station_names
    /\ inserts > 0 => \E k \in 1..Len(subway_stations) : IsVirtual(subway_stations[k])
    /\ mode = "subway" =>
          \A c \in PairsProcessed :
              travel_time_matrix[c] # NaN =>
                 (Len(route_matrix[c].points) = 5
                     <=> SrcStation(c).station_name \in InsertedNames)

(* C23: the set of original subway station names is fixed at load and no    *)
(* operation changes it, insert_station included; in every later subway     *)
(* computation a loaded station is genuine and a station inserted under a   *)
(* name outside the set is virtual.                                         *)
C23_OriginalNamesFixed ==
    /\ []ClassifiedByLoad
    /\ [][original_subway_station_names' = original_subway_station_names]_vars

C23_Witness ==
    /\ inserts = MaxInserts
    /\ mode = "subway"
    /\ matrix_pc = "returned"
    /\ \E c, d \in PairsProcessed :
          /\ IsVirtual(SrcStation(c))
          /\ travel_time_matrix[c] # NaN
          /\ ~IsVirtual(SrcStation(d))
          /\ travel_time_matrix[d] # NaN

----------------------------------------------------------------------------
(* Properties of set_departure_time *)

(* Seconds from midnight of day 0 to the datetime *)
Instant(dt) == dt.day * TimeOfDay(24, 0, 0) + TimeOfDay(dt.hour, dt.minute, dt.second)

(* C24: set_departure_time(hour, minute) returns a Monday at exactly        *)
(* hour:minute, never earlier than the current time and at most 7 days      *)
(* after it: from Tuesday to Sunday the coming Monday, on a Monday whose    *)
(* hour:minute has not passed today, on a Monday whose hour:minute has      *)
(* passed the Monday one week later.                                        *)
C24_NextMonday ==
    departure.called =>
       LET now == departure.now
           result == departure.result
           passed == TimeOfDay(now.hour, now.minute, now.second)
                        > TimeOfDay(departure.hour, departure.minute, 0)
       IN /\ Weekday(result) = 0
          /\ result.hour = departure.hour
          /\ result.minute = departure.minute
          /\ result.second = 0
          /\ Instant(result) >= Instant(now)
          /\ Instant(result) - Instant(now) <= 7 * TimeOfDay(24, 0, 0)
          /\ Weekday(now) # 0 =>
                /\ result.day > now.day
                /\ \A day \in (now.day + 1)..(result.day - 1) : day % 7 # 0
          /\ (Weekday(now) = 0 /\ ~passed) => result.day = now.day
          /\ (Weekday(now) = 0 /\ passed) => result.day = now.day + 7

C24_Witness ==
    /\ departure.called
    /\ Weekday(departure.now) = 0
    /\ departure.result.day = departure.now.day + 7
    /\ departure.hour = 8
    /\ departure.now.hour = 8
    /\ departure.now.second = 1

----------------------------------------------------------------------------
(* Properties of the search for nearby stations *)

(* The rows of the table within the radius of the center, with distances *)
RowsWithin(table, center, radius_km) ==
    {k \in 1..Len(table) :
        Haversine(center, <<table[k].latitude, table[k].longitude>>) <= radius_km}

ExactlyWithin(found, table, center, radius_km) ==
    /\ Len(found) = Cardinality(RowsWithin(table, center, radius_km))
    /\ \A k \in RowsWithin(table, center, radius_km) :
          \E l \in 1..Len(found) : found[l] = Found(table[k], center)
    /\ \A l \in 1..Len(found) :
          \E k \in RowsWithin(table, center, radius_km) : found[l] = Found(table[k], center)
    /\ \A l \in 1..(Len(found) - 1) : found[l].distance_km <= found[l + 1].distance_km
    /\ RowsWithin(table, center, radius_km) = {} => found = <<>>

(* C25: find_stations_within_radius returns, for each network, exactly the  *)
(* stations whose distance to the center is at most radius_km, sorted by    *)
(* ascending distance, and an empty table without an exception when no      *)
(* station qualifies; a station at the radius is included and a station     *)
(* beyond it is not.                                                        *)
C25_ExactlyWithinRadius ==
    nearby_call.called =>
       /\ ExactlyWithin(nearby_call.stations.citibike, citibike_stations,
                        nearby_call.location, nearby_call.radius_km)
       /\ ExactlyWithin(nearby_call.stations.subway, subway_stations,
                        nearby_call.location, nearby_call.radius_km)

C25_Witness ==
    /\ nearby_call.called
    /\ Len(nearby_call.stations.citibike) < Len(citibike_stations)
    /\ Len(nearby_call.stations.subway) = 2
    /\ Len(subway_stations) > 2
    /\ nearby_call.stations.subway[2].distance_km = nearby_call.radius_km
    /\ nearby_call.stations.subway[1].distance_km < nearby_call.radius_km
    /\ nearby_call.stations.subway[2].latitude = subway_stations[1].latitude

----------------------------------------------------------------------------
(* Properties of calculate_travel_time *)

SingleLegFailed(leg) == \E r \in DirectionsOf(SinglePair, leg) : r.response # "route"

SingleLegRaised(leg) == \E r \in DirectionsOf(SinglePair, leg) : r.response = "raise"

SingleNoStation == SingleStations(single.src) = <<>> \/ SingleStations(single.dst) = <<>>

SingleVirtual ==
    /\ single.mode = "subway"
    /\ ~SingleNoStation
    /\ IsVirtual(SingleStations(single.src)[1])

SingleNoSecond ==
    /\ SingleVirtual
    /\ FoundAround(SingleStations(single.src)[1], single.radius_km) < 2

----------------------------------------------------------------------------
(* Properties of insert_station *)

(* C28 as claimed: insert_station(name, coords) on a subway table of k      *)
(* records yields a table of k + 1 records in which the k earlier records   *)
(* are unchanged and the last record is (name, coords), on every table      *)
(* reachable from load and after any earlier inserts.                       *)
C28_InsertAppends ==
    [][inserts' = inserts + 1 =>
          /\ Len(subway_stations') = Len(subway_stations) + 1
          /\ \A k \in 1..Len(subway_stations) : subway_stations'[k] = subway_stations[k]
          /\ \E station \in InsertChoices :
                LET new == subway_stations'[Len(subway_stations')]
                IN /\ new.station_name = station[1]
                   /\ Coord(new) = station[2]]_vars

----------------------------------------------------------------------------
(* Properties of pre_calculate_nearest_stations *)

ModeTable(md) == IF md = "citibike" THEN citibike_stations ELSE subway_stations

----------------------------------------------------------------------------
(* The single-pair and the matrix computation compared *)

(* The routing service answered each request of the single-pair outcome in  *)
(* the matrix call, with the same response                                  *)
SameResponses(out) ==
    \A k \in 1..Len(out.reqs) : \E l \in 1..Len(requests) : requests[l] = out.reqs[k]

(* C30 as claimed: in subway mode, for one start and one end that each have *)
(* a station within the search radius and with the same responses of the    *)
(* routing service, calculate_travel_time returns None exactly when the     *)
(* cell of the 1x1 matrix is NaN, and when both resolve they return the     *)
(* same waypoints.                                                          *)
C30_SingleAgreesWithMatrix ==
    (/\ matrix_pc = "returned"
     /\ mode = "subway"
     /\ Len(start_points) = 1
     /\ Len(end_points) = 1
     /\ WithinRadius(subway_stations, start_points[1], SearchRadius) # <<>>
     /\ WithinRadius(subway_stations, end_points[1], SearchRadius) # <<>>) =>
       \A out \in TravelTimeOutcomes("subway", start_points[1], end_points[1],
                                     SearchRadius, MaxFaults) :
           SameResponses(out) =>
              /\ out.result = <<>> <=> travel_time_matrix[SinglePair] = NaN
              /\ out.result # <<>> =>
                    out.result[1].route = route_matrix[SinglePair].points

====
